---------------------------- MODULE Spec2Model ----------------------------
(***************************************************************************)
(* A model of the wordlebot game engine: src/src/game.rs (GameState, the   *)
(* engine behind the Game handle) and src/src/words.rs (Words, the         *)
(* vocabulary and its thesaurus), and of the chat front end:               *)
(* src/src/irccmd.rs (GameCommand::parse, irc_handler) under main.         *)
(*                                                                         *)
(* Text is a sequence of one-character strings, so that trimming and       *)
(* lower-casing are computed.  An f32 is modelled by an integer: the       *)
(* vectors hold only the values 0.0 and 1.0, on which products and sums    *)
(* are exact.  Option<i64> and a NULL column are modelled by 0, sqlite     *)
(* row ids starting at 1.                                                  *)
(***************************************************************************)
EXTENDS Integers, Sequences, FiniteSets, TLC

\* ------------------------------------------------------------------ bounds

\* Rows the sessions table may hold.
MaxSessions == 2
\* Rows the guesses table may hold.
MaxGuesses == 2
\* Concurrent callers of the Game handle.
NumCallers == 2
\* Calls made through the Game handle in one run.
MaxCalls == 3

\* ------------------------------------------------------------- encodings

\* Option::None (session_id, winner_id).
None == 0
\* A NULL column of a row.
NULL == 0
\* The empty string "".
Empty == << >>
\* The f32 1.0 that process_guess assigns and compares with.
ONE == 1

\* ------------------------------------------------------------------ inputs

cat == <<"c", "a", "t">>
dog == <<"d", "o", "g">>

\* The vectors a term of the vocabulary file may have (f32 components).
Vecs == { <<1, 0>>, <<0, 1>> }

\* Nicknames of the players who write in the channel.
Nicks == {"alice", "bob"}

\* Raw guess texts as they come from the chat: "cat", " Dog " and "x".
GuessTexts ==
    { cat,
      <<" ", "D", "o", "g", " ">>,
      <<"x">> }

\* Readings of the wall clock (SystemTime::now(), in seconds).
Times == {1, 2}

Callers == 1..NumCallers


\* ------------------------------------------------------- text conversions

\* char::is_whitespace, on the characters of the model.
IsWhitespace(ch) == ch = " "

\* The lower-case mapping of the upper-case letters of the model.
LowerOf ==
    ("A" :> "a") @@ ("C" :> "c") @@ ("D" :> "d") @@ ("G" :> "g") @@
    ("O" :> "o") @@ ("T" :> "t")

\* str::to_lowercase: every character replaced by its lower-case form.
to_lowercase(s) ==
    [i \in 1..Len(s) |-> IF s[i] \in DOMAIN LowerOf THEN LowerOf[s[i]] ELSE s[i]]

RECURSIVE trim_start(_)
\* str::trim_start: leading whitespace removed.
trim_start(s) ==
    IF s # << >> /\ IsWhitespace(Head(s)) THEN trim_start(Tail(s)) ELSE s

RECURSIVE trim_end(_)
\* str::trim_end: trailing whitespace removed.
trim_end(s) ==
    IF s # << >> /\ IsWhitespace(s[Len(s)])
    THEN trim_end(SubSeq(s, 1, Len(s) - 1))
    ELSE s

\* str::trim: leading and trailing whitespace removed.
trim(s) == trim_end(trim_start(s))

\* The clean-up process_guess applies to a guess: guess.trim().to_lowercase().
cleanup(guess) == to_lowercase(trim(guess))

\* -------------------------------------------------------------- Words

\* Words::vector, as the 1-based position of the first entry whose term is
\* `w`, 0 for Option::None.
position(vocabulary, w) ==
    IF \E i \in 1..Len(vocabulary) : vocabulary[i].term = w
    THEN CHOOSE i \in 1..Len(vocabulary) :
            /\ vocabulary[i].term = w
            /\ \A j \in 1..(i - 1) : vocabulary[j].term # w
    ELSE 0

RECURSIVE dot_upto(_, _, _)
\* The sum of a[i] * b[i] over the first n pairs.
dot_upto(a, b, n) ==
    IF n = 0 THEN 0 ELSE dot_upto(a, b, n - 1) + a[n] * b[n]

\* a.iter().zip(b.iter()).map(|(&a, &b)| a * b).sum(): zip stops at the
\* shorter of the two.
dot(a, b) == dot_upto(a, b, IF Len(a) <= Len(b) THEN Len(a) ELSE Len(b))

\* The vocabularies Words::load may read: the terms cat and dog, in file
\* order; dog's vector is cat's or is orthogonal to it.
Vocabularies ==
    { <<[term |-> cat, vec |-> <<1, 0>>], [term |-> dog, vec |-> v]>> : v \in Vecs }

\* ------------------------------------------------------------- thesaurus

\* The number of neighbours asked for ranges over 0..MaxCount.
MaxCount == 3

emu == <<"e", "m", "u">>

\* Vectors of the thesaurus vocabularies; the file's vectors are taken as they
\* are, of any length.
ThesVecs == Vecs \cup { <<1, 1>> }

\* Vocabularies of three terms, in file order.
ThesVocabularies ==
    { <<[term |-> cat, vec |-> v1], [term |-> dog, vec |-> v2],
        [term |-> emu, vec |-> v3]>> : v1 \in ThesVecs, v2 \in ThesVecs,
                                        v3 \in ThesVecs }

\* The words asked about: the three terms and a word that is no term.
ThesWords == { cat, dog, emu, <<"x">> }

\* `metrics`: for each entry of the vocabulary, in order, its index and its
\* dot product with `val`.
metrics_of(vocabulary, val) ==
    [i \in 1..Len(vocabulary) |->
        [idx |-> i, dist |-> dot(val, vocabulary[i].vec)]]

\* One step of the stable sort: x goes after every entry that does not
\* compare greater than it under |a, b| b.1.partial_cmp(&a.1).
insert_sorted(sorted, x) ==
    LET k == Cardinality({i \in 1..Len(sorted) : sorted[i].dist >= x.dist})
    IN  SubSeq(sorted, 1, k) \o <<x>> \o SubSeq(sorted, k + 1, Len(sorted))

RECURSIVE sort_by(_)
\* metrics.sort_by(..): a stable sort by descending dot product; entries that
\* compare equal keep their order.
sort_by(m) ==
    IF m = << >>
    THEN << >>
    ELSE insert_sorted(sort_by(SubSeq(m, 1, Len(m) - 1)), m[Len(m)])

\* Words::thesaurus up to `results`: "None" for a word that is no term,
\* "panic" when metrics[1..count + 1] is out of range, else "Some" with the
\* entries 1..count (0-based) of the sorted metrics as (term, dot product).
results_of(vocabulary, w, count) ==
    LET i == position(vocabulary, w)
    IN  IF i = 0 THEN [kind |-> "None", list |-> << >>]
        ELSE
        LET metrics == sort_by(metrics_of(vocabulary, vocabulary[i].vec))
        IN  IF count + 1 > Len(metrics)
            THEN [kind |-> "panic", list |-> << >>]
            ELSE [kind |-> "Some",
                  list |-> [k \in 1..count |->
                               [term |-> vocabulary[metrics[k + 1].idx].term,
                                dist |-> metrics[k + 1].dist]]]

Digits == <<"0", "1", "2", "3", "4", "5", "6", "7", "8", "9">>

RECURSIVE decimal(_)
\* The decimal digits of a natural number.
decimal(n) ==
    IF n < 10
    THEN <<Digits[n + 1]>>
    ELSE decimal(n \div 10) \o <<Digits[(n % 10) + 1]>>

\* {:?} of an f32 that is a whole number, not negative: "1.0".
debug_f32(d) == decimal(d) \o <<".", "0">>

\* {:?} of a (String, f32) whose string needs no escape: ("cat", 1.0).
debug_pair(e) ==
    <<"(", "\"">> \o e.term \o <<"\"", ",", " ">> \o debug_f32(e.dist) \o <<")">>

RECURSIVE debug_list(_)
\* {:?} of the elements of a Vec, separated by ", ".
debug_list(l) ==
    IF l = << >> THEN << >>
    ELSE IF Len(l) = 1 THEN debug_pair(l[1])
    ELSE debug_list(SubSeq(l, 1, Len(l) - 1)) \o <<",", " ">>
         \o debug_pair(l[Len(l)])

\* format!("{:?}", results) for results: Option<Vec<(String, f32)>>.
debug_results(r) ==
    IF r.kind = "None"
    THEN <<"N", "o", "n", "e">>
    ELSE <<"S", "o", "m", "e", "(", "[">> \o debug_list(r.list) \o <<"]", ")">>

\* Words::thesaurus: the text returned, or the panic of the slice.
thesaurus(vocabulary, w, count) ==
    LET r == results_of(vocabulary, w, count)
    IN  IF r.kind = "panic"
        THEN [panic |-> TRUE, text |-> << >>]
        ELSE [panic |-> FALSE, text |-> debug_results(r)]

\* ------------------------------------------------------------------ state

VARIABLES
    words,            \* Words.vocabulary: the sequence of [term, vec] entries
    rejects_tail,     \* whether the rusqlite of the build rejects SQL with a tail
    session_id,       \* GameState.session_id: None, or the current session's id
    word,             \* GameState.word: the word guesses are compared with
    players,          \* table players: row i is [nick, score], its id is i
    sessions,         \* table sessions: row i is [word, end_date, winner_id, playing]
                      \* (start_date and planned_end_date are written once and
                      \* decide nothing)
    current_session,  \* table current_session: session_id of its single row, or NULL
    guesses,          \* table guesses: rows [session_id, player_id, guess, cosine]
    ret,              \* the call made last and what it returned
    mutex,            \* Game.0, the tokio Mutex: the caller holding it, or 0
    pc,               \* each caller's place in Game::start_game / Game::process_guess
    req,              \* each caller's pending call
    out,              \* what each caller's call returned
    calls,            \* the number of calls made through the Game handle
    clock,            \* the time in seconds, as Instant::now() reads it
    last_wakeup,      \* irc_handler's last_wakeup
    heard,            \* the message irc_handler handled last, the guess it made
                      \* of it and what it said in reply
    irc_task,         \* the task running irc_handler: "running" or "panicked"
    process           \* main: "running", or "crashed" by res.unwrap()

engine == <<session_id, word>>
db == <<players, sessions, current_session, guesses>>
handle == <<mutex, pc, req, out, calls>>
chat == <<clock, last_wakeup, heard, irc_task, process>>
vars == <<words, rejects_tail, session_id, word, players, sessions,
          current_session, guesses, ret, mutex, pc, req, out, calls,
          clock, last_wakeup, heard, irc_task, process>>

\* No message heard yet.
NoMessage == [msg |-> << >>, nick |-> "", guess |-> << >>, guessed |-> FALSE,
              said |-> << >>]

\* irc_handler before its first message: last_wakeup = Instant::now().
ChatInit ==
    /\ clock = 0
    /\ last_wakeup = 0
    /\ heard = NoMessage
    /\ irc_task = "running"
    /\ process = "running"

\* The engine and its database as one value, for the operators below.
Cur ==
    [ session_id |-> session_id, word |-> word, players |-> players,
      sessions |-> sessions, current_session |-> current_session,
      guesses |-> guesses ]

\* The variables take the values of S.
Install(S) ==
    /\ session_id' = S.session_id
    /\ word' = S.word
    /\ players' = S.players
    /\ sessions' = S.sessions
    /\ current_session' = S.current_session
    /\ guesses' = S.guesses

\* ------------------------------------------------------ returned values

\* Ok(Outcome::Win), Ok(Outcome::Miss { distance }), Ok(Outcome::UnknownWord),
\* Ok(()) and Err(..) as records of one shape.
Win == [kind |-> "Win", distance |-> ONE, err |-> ""]
Miss(distance) == [kind |-> "Miss", distance |-> distance, err |-> ""]
UnknownWord == [kind |-> "UnknownWord", distance |-> 0, err |-> ""]
Unit == [kind |-> "Ok", distance |-> 0, err |-> ""]
Err(msg) == [kind |-> "Err", distance |-> 0, err |-> msg]

\* bail!("there's no game in progress")
NoGame == Err("there's no game in progress")
\* The anyhow error of process_guess when the target word has no vector.
TargetMissing == Err("could not find target word in vocabulary: this is a bug")
\* A rusqlite::Error, propagated by `?`.
StorageError == Err("rusqlite error")

\* ------------------------------------------------------------ GameState

\* end_game with its UPDATE of table sessions left out: the session is
\* dropped from memory and its row keeps end_date NULL.
end_game_no_update(S, winner_id, t, fails) ==
    IF S.session_id = None
    THEN [res |-> NoGame, S |-> S]
    ELSE [res |-> Unit, S |-> [S EXCEPT !.session_id = None]]

\* GameState::end_game.  Its SQL is one string of two statements handed to
\* rusqlite's Connection::execute, which prepares and runs the first
\* statement only.  The tail, "UPDATE current_session SET session_id=NULL",
\* is run by no build; a build whose rusqlite checks for a tail returns
\* Error::MultipleStatement before running anything (rejects_tail), the
\* others drop the tail silently.  With a winner the first statement sets a
\* column `winner`, which table sessions does not have (its column is
\* winner_id): preparing it fails in every build.  `fails` is a storage
\* failure of the statement itself.  Every failure returns through `?`,
\* before self.session_id = None.
end_game(S, winner_id, t, fails) ==
    IF S.session_id = None
    THEN [res |-> NoGame, S |-> S]
    ELSE IF winner_id # None
    THEN [res |-> StorageError, S |-> S]
    ELSE IF rejects_tail \/ fails
    THEN [res |-> StorageError, S |-> S]
    ELSE [res |-> Unit,
          S |-> [S EXCEPT !.sessions[S.session_id].end_date = t,
                          !.session_id = None]]

\* "SELECT id FROM players WHERE nick==?1": the id of the row of `nick`, 0 for
\* no row.
player_of(rows, nick) ==
    IF \E i \in 1..Len(rows) : rows[i].nick = nick
    THEN CHOOSE i \in 1..Len(rows) : rows[i].nick = nick
    ELSE 0

\* GameState::insert_guess: one row appended to table guesses.
insert_guess(S, sid, guess, player_id, cosine) ==
    [S EXCEPT !.guesses =
        Append(@, [session_id |-> sid, player_id |-> player_id,
                   guess |-> guess, cosine |-> cosine])]

\* process_guess with one step misplaced, the way `bug` says:
\*   "player_first"    the player is resolved before the session is checked;
\*   "record_unknown"  the guess row is written before the vocabulary lookup;
\*   "duplicate_nick"  the player row is inserted without the SELECT.
\* Any other `bug` gives process_guess itself.
process_guess_variant(S, player_nick, guess, t, fail, bug) ==
    IF S.session_id = None /\ bug # "player_first" THEN [res |-> NoGame, S |-> S]
    ELSE IF fail = 1 THEN [res |-> StorageError, S |-> S]
    ELSE
    LET found == IF bug = "duplicate_nick" THEN 0 ELSE player_of(S.players, player_nick)
    IN  IF found = 0 /\ fail = 2 THEN [res |-> StorageError, S |-> S]
        ELSE
        LET S1 == IF found = 0
                  THEN [S EXCEPT !.players =
                            Append(@, [nick |-> player_nick, score |-> 0])]
                  ELSE S
            player_id == IF found = 0 THEN Len(S1.players) ELSE found
            g == cleanup(guess)
            ig == position(words, g)
            it == position(words, S1.word)
        IN  IF S.session_id = None THEN [res |-> NoGame, S |-> S1]
            ELSE IF ig = 0
            THEN [res |-> UnknownWord,
                  S |-> IF bug = "record_unknown"
                        THEN insert_guess(S1, S1.session_id, g, player_id, 0)
                        ELSE S1]
            ELSE IF g # S1.word /\ it = 0 THEN [res |-> TargetMissing, S |-> S1]
            ELSE
            LET distance == IF g = S1.word
                            THEN ONE
                            ELSE dot(words[ig].vec, words[it].vec)
            IN  IF fail = 3 THEN [res |-> StorageError, S |-> S1]
                ELSE
                LET S2 == insert_guess(S1, S1.session_id, g, player_id, distance)
                IN  IF distance = ONE
                    THEN [res |-> Win,
                          S |-> end_game(S2, player_id, t, fail = 4).S]
                    ELSE [res |-> Miss(distance), S |-> S2]

\* process_guess writing the guess row before it looks the guess up.
process_guess_record_unknown(S, player_nick, guess, t, fail) ==
    process_guess_variant(S, player_nick, guess, t, fail, "record_unknown")

\* process_guess inserting a player row for every call.
process_guess_duplicate_nick(S, player_nick, guess, t, fail) ==
    process_guess_variant(S, player_nick, guess, t, fail, "duplicate_nick")

\* process_guess resolving the player before it checks for a session.
process_guess_player_first(S, player_nick, guess, t, fail) ==
    process_guess_variant(S, player_nick, guess, t, fail, "player_first")

\* GameState::process_guess.  `fail` names the storage statement that fails
\* when it is reached (0: none): 1 the SELECT of the player, 2 the INSERT of
\* the player, 3 the INSERT of the guess, 4 the UPDATE of end_game.  The
\* Result of end_game is dropped.
process_guess(S, player_nick, guess, t, fail) ==
    IF S.session_id = None THEN [res |-> NoGame, S |-> S]
    ELSE IF fail = 1 THEN [res |-> StorageError, S |-> S]
    ELSE
    LET found == player_of(S.players, player_nick)
    IN  IF found = 0 /\ fail = 2 THEN [res |-> StorageError, S |-> S]
        ELSE
        LET S1 == IF found = 0
                  THEN [S EXCEPT !.players =
                            Append(@, [nick |-> player_nick, score |-> 0])]
                  ELSE S
            player_id == IF found = 0 THEN Len(S1.players) ELSE found
            g == cleanup(guess)
            ig == position(words, g)
            it == position(words, S1.word)
        IN  IF ig = 0 THEN [res |-> UnknownWord, S |-> S1]
            ELSE IF g # S1.word /\ it = 0 THEN [res |-> TargetMissing, S |-> S1]
            ELSE
            LET distance == IF g = S1.word
                            THEN ONE
                            ELSE dot(words[ig].vec, words[it].vec)
            IN  IF fail = 3 THEN [res |-> StorageError, S |-> S1]
                ELSE
                LET S2 == insert_guess(S1, S1.session_id, g, player_id, distance)
                IN  IF distance = ONE
                    THEN [res |-> Win,
                          S |-> end_game(S2, player_id, t, fail = 4).S]
                    ELSE [res |-> Miss(distance), S |-> S2]

\* Words::pick_word, `pos` being the position the random generator gives.
pick_word(vocabulary, pos) == vocabulary[pos].term

\* GameState::start_game.  `fail` names the storage statement that fails when
\* it is reached (0: none): 1 the UPDATE of end_game, 2 the INSERT of the
\* session, 3 the UPDATE of current_session.  self.word is not assigned.
start_game(S, pos, t, fail) ==
    LET e == IF S.session_id # None
             THEN end_game(S, None, t, fail = 1)
             ELSE [res |-> Unit, S |-> S]
    IN  IF e.res.kind = "Err" THEN e
        ELSE IF fail = 2 THEN [res |-> StorageError, S |-> e.S]
        ELSE
        LET S1 == [e.S EXCEPT !.sessions =
                      Append(@, [word |-> pick_word(words, pos), end_date |-> NULL,
                                 winner_id |-> NULL, playing |-> NULL])]
            id == Len(S1.sessions)
        IN  IF fail = 3 THEN [res |-> StorageError, S |-> S1]
            ELSE [res |-> Unit,
                  S |-> [S1 EXCEPT !.current_session = id, !.session_id = id]]

\* GameState::load on the database of S: session_id and word are read from
\* current_session and the session row it names.
load(S) ==
    IF S.current_session # NULL
    THEN [S EXCEPT !.session_id = S.current_session,
                   !.word = S.sessions[S.current_session].word]
    ELSE [S EXCEPT !.session_id = None, !.word = Empty]

\* The database after setup_schema on a new file, and no engine yet.
EmptyDb ==
    [ session_id |-> None, word |-> Empty, players |-> << >>, sessions |-> << >>,
      current_session |-> NULL, guesses |-> << >> ]

\* ---------------------------------------------------------------- calls

\* The record kept of a call: the operation, its arguments (the guess as
\* cleaned up), the session id the engine held when it was called and the
\* value returned.
Called(op, nick, guess, res) ==
    [op |-> op, nick |-> nick, guess |-> guess, sid |-> session_id, res |-> res]

\* The arguments of a call through the Game handle; op "none" is no call.
NoRequest == [op |-> "none", nick |-> "", guess |-> Empty]
StartRequest == [op |-> "start_game", nick |-> "", guess |-> Empty]
GuessRequest(nick, guess) == [op |-> "process_guess", nick |-> nick, guess |-> guess]

\* The record of no call.
NoCall == [op |-> "none", nick |-> "", guess |-> Empty, sid |-> None, res |-> Unit]

Init ==
    /\ words \in Vocabularies
    /\ rejects_tail \in BOOLEAN
    /\ LET S == load(EmptyDb)
       IN  /\ session_id = S.session_id
           /\ word = S.word
           /\ players = S.players
           /\ sessions = S.sessions
           /\ current_session = S.current_session
           /\ guesses = S.guesses
    /\ ret = [op |-> "load", nick |-> "", guess |-> Empty, sid |-> None,
              res |-> Unit]
    /\ mutex = 0
    /\ pc = [c \in Callers |-> "idle"]
    /\ req = [c \in Callers |-> NoRequest]
    /\ out = [c \in Callers |-> NoCall]
    /\ calls = 0
    /\ ChatInit

\* A call of GameState::start_game.
StartGame ==
    \E pos \in 1..Len(words), t \in Times :
        LET r == start_game(Cur, pos, t, 0)
        IN  /\ Len(r.S.sessions) <= MaxSessions
            /\ Install(r.S)
            /\ ret' = Called("start_game", "", Empty, r.res)
            /\ UNCHANGED <<words, rejects_tail, chat, handle>>

\* A call of GameState::process_guess.
ProcessGuess ==
    \E nick \in Nicks, guess \in GuessTexts, t \in Times :
        LET r == process_guess(Cur, nick, guess, t, 0)
        IN  /\ Len(r.S.guesses) <= MaxGuesses
            /\ Install(r.S)
            /\ ret' = Called("process_guess", nick, cleanup(guess), r.res)
            /\ UNCHANGED <<words, rejects_tail, chat, handle>>

\* The process stops between two calls and starts again: main builds the
\* engine anew with Game::load on the same database file.
Restart ==
    /\ Install(load(Cur))
    /\ ret' = Called("load", "", Empty, Unit)
    /\ UNCHANGED <<words, rejects_tail, chat, handle>>

Next == StartGame \/ ProcessGuess \/ Restart

Spec == Init /\ [][Next]_vars

\* A call of GameState::start_game in which storage statement `fail` fails if
\* it is reached.
FaultStartGame ==
    \E pos \in 1..Len(words), t \in Times, fail \in 1..3 :
        \E r \in {start_game(Cur, pos, t, fail)} :
            /\ Len(r.S.sessions) <= MaxSessions
            /\ Install(r.S)
            /\ ret' = Called("start_game", "", Empty, r.res)
            /\ UNCHANGED <<words, rejects_tail, chat, handle>>

\* A call of GameState::process_guess in which storage statement `fail` fails
\* if it is reached.
FaultProcessGuess ==
    \E nick \in Nicks, guess \in GuessTexts, t \in Times, fail \in 1..4 :
        \E r \in {process_guess(Cur, nick, guess, t, fail)} :
            /\ Len(r.S.guesses) <= MaxGuesses
            /\ Install(r.S)
            /\ ret' = Called("process_guess", nick, cleanup(guess), r.res)
            /\ UNCHANGED <<words, rejects_tail, chat, handle>>

NextFault ==
    StartGame \/ ProcessGuess \/ Restart \/ FaultStartGame \/ FaultProcessGuess

\* The engine on a database whose statements may fail.
SpecFault == Init /\ [][NextFault]_vars

\* The engine of a bot whose vocabulary is one of ThesVocabularies.
InitThes ==
    /\ words \in ThesVocabularies
    /\ rejects_tail \in BOOLEAN
    /\ LET S == load(EmptyDb)
       IN  /\ session_id = S.session_id
           /\ word = S.word
           /\ players = S.players
           /\ sessions = S.sessions
           /\ current_session = S.current_session
           /\ guesses = S.guesses
    /\ ret = [op |-> "load", nick |-> "", guess |-> Empty, sid |-> None,
              res |-> Unit]
    /\ mutex = 0
    /\ pc = [c \in Callers |-> "idle"]
    /\ req = [c \in Callers |-> NoRequest]
    /\ out = [c \in Callers |-> NoCall]
    /\ calls = 0
    /\ ChatInit

\* A call of Words::thesaurus.
Thesaurus ==
    \E w \in ThesWords, count \in 0..MaxCount :
        /\ ret' = [op |-> "thesaurus", word |-> w, count |-> count,
                   results |-> results_of(words, w, count),
                   res |-> thesaurus(words, w, count)]
        /\ UNCHANGED <<words, rejects_tail, engine, db, handle, chat>>

SpecThes == InitThes /\ [][Thesaurus]_vars

\* ----------------------------------------------------------- Game handle

\* Calls of `op` handed to the blocking pool and not run yet.
Pending(op) == Cardinality({c \in Callers : pc[c] \in {"spawned", "locked"} /\ req[c].op = op})

\* Game::start_game up to spawn_blocking: the closure is handed to the
\* blocking pool.  A call is made only while the tables have room for the rows
\* of every call under way.
CallStartGame(c) ==
    /\ pc[c] = "idle"
    /\ calls < MaxCalls
    /\ Len(sessions) + Pending("start_game") < MaxSessions
    /\ pc' = [pc EXCEPT ![c] = "spawned"]
    /\ req' = [req EXCEPT ![c] = StartRequest]
    /\ calls' = calls + 1
    /\ UNCHANGED <<words, rejects_tail, chat, engine, db, ret, mutex, out>>

\* Game::process_guess up to spawn_blocking.
CallProcessGuess(c) ==
    /\ pc[c] = "idle"
    /\ calls < MaxCalls
    /\ Len(guesses) + Pending("process_guess") < MaxGuesses
    /\ \E nick \in Nicks, guess \in GuessTexts :
          req' = [req EXCEPT ![c] = GuessRequest(nick, guess)]
    /\ pc' = [pc EXCEPT ![c] = "spawned"]
    /\ calls' = calls + 1
    /\ UNCHANGED <<words, rejects_tail, chat, engine, db, ret, mutex, out>>

\* A lock that is granted whoever holds it.
blocking_lock_granted(c) == TRUE

\* Mutex::blocking_lock returns to caller c only when no one holds the mutex.
blocking_lock(c) == mutex = 0

\* The closure of caller c takes the lock: `state.blocking_lock()`.
Lock(c) ==
    /\ pc[c] = "spawned"
    /\ blocking_lock(c)
    /\ mutex' = c
    /\ pc' = [pc EXCEPT ![c] = "locked"]
    /\ UNCHANGED <<words, rejects_tail, chat, engine, db, ret, req, out, calls>>

\* The closure of Game::start_game runs GameState::start_game under the lock
\* and returns; the guard is dropped as the closure ends.
RunStartGame(c) ==
    /\ pc[c] = "locked"
    /\ req[c].op = "start_game"
    /\ \E pos \in 1..Len(words), t \in Times :
          LET r == start_game(Cur, pos, t, 0)
          IN  /\ Install(r.S)
              /\ out' = [out EXCEPT ![c] = Called("start_game", "", Empty, r.res)]
    /\ mutex' = 0
    /\ pc' = [pc EXCEPT ![c] = "done"]
    /\ UNCHANGED <<words, rejects_tail, chat, ret, req, calls>>

\* The closure of Game::process_guess keeping the lock when process_guess
\* returns an error.
RunProcessGuessKeepsLock(c) ==
    /\ pc[c] = "locked"
    /\ req[c].op = "process_guess"
    /\ \E t \in Times :
          \E r \in {process_guess(Cur, req[c].nick, req[c].guess, t, 0)} :
              /\ Install(r.S)
              /\ out' = [out EXCEPT ![c] =
                            Called("process_guess", req[c].nick,
                                   cleanup(req[c].guess), r.res)]
              /\ mutex' = IF r.res.kind = "Err" THEN mutex ELSE 0
    /\ pc' = [pc EXCEPT ![c] = "done"]
    /\ UNCHANGED <<words, rejects_tail, chat, ret, req, calls>>

\* The closure of Game::process_guess runs GameState::process_guess under the
\* lock and returns; the guard is dropped as the closure ends.
RunProcessGuess(c) ==
    /\ pc[c] = "locked"
    /\ req[c].op = "process_guess"
    /\ \E t \in Times :
          LET r == process_guess(Cur, req[c].nick, req[c].guess, t, 0)
          IN  /\ Install(r.S)
              /\ out' = [out EXCEPT ![c] =
                            Called("process_guess", req[c].nick,
                                   cleanup(req[c].guess), r.res)]
    /\ mutex' = 0
    /\ pc' = [pc EXCEPT ![c] = "done"]
    /\ UNCHANGED <<words, rejects_tail, chat, ret, req, calls>>

\* `.await?` on the JoinHandle: the caller receives what the closure returned.
Await(c) ==
    /\ pc[c] = "done"
    /\ pc' = [pc EXCEPT ![c] = "idle"]
    /\ req' = [req EXCEPT ![c] = NoRequest]
    /\ out' = [out EXCEPT ![c] = NoCall]
    /\ UNCHANGED <<words, rejects_tail, chat, engine, db, ret, mutex, calls>>

\* The engine as Game::load builds it on a new database file, or on the file
\* of an earlier run in which start_game was called once.
InitConc ==
    /\ words \in Vocabularies
    /\ rejects_tail \in BOOLEAN
    /\ \E S \in {load(EmptyDb)} \cup
                {load(start_game(load(EmptyDb), pos, t, 0).S) :
                    pos \in 1..Len(words), t \in Times} :
           /\ session_id = S.session_id
           /\ word = S.word
           /\ players = S.players
           /\ sessions = S.sessions
           /\ current_session = S.current_session
           /\ guesses = S.guesses
    /\ ret = [op |-> "load", nick |-> "", guess |-> Empty, sid |-> None,
              res |-> Unit]
    /\ mutex = 0
    /\ pc = [c \in Callers |-> "idle"]
    /\ req = [c \in Callers |-> NoRequest]
    /\ out = [c \in Callers |-> NoCall]
    /\ calls = 0
    /\ ChatInit

NextConc ==
    \E c \in Callers :
        \/ CallStartGame(c)
        \/ CallProcessGuess(c)
        \/ Lock(c)
        \/ RunStartGame(c)
        \/ RunProcessGuess(c)
        \/ Await(c)

SpecConc == InitConc /\ [][NextConc]_vars

\* The scheduling of the closures: the tokio Mutex hands the lock to its
\* waiters in the order they came, so a closure that waits for it gets it
\* (strong fairness of Lock); a closure that holds the lock is on a thread of
\* the blocking pool and runs to its end (weak fairness of Run..).
FairConc ==
    \A c \in Callers :
        /\ SF_vars(Lock(c))
        /\ WF_vars(RunStartGame(c))
        /\ WF_vars(RunProcessGuess(c))

\* The engine on a new database file, with one vocabulary, in a build that
\* rejects SQL with a tail: there every start_game but the first returns early
\* with an error, as do the guesses made before it.
InitFair ==
    /\ InitConc
    /\ words = <<[term |-> cat, vec |-> <<1, 0>>], [term |-> dog, vec |-> <<0, 1>>]>>
    /\ sessions = << >>
    /\ rejects_tail

SpecConcFair == InitFair /\ [][NextConc]_vars /\ FairConc

\* ------------------------------------------------------------ irc_handler

\* const AWAKE_SECS
AWAKE_SECS == 15

\* The clock is followed up to MaxClock seconds.
MaxClock == 43

\* config.nickname
self_name == <<"b", "o", "t">>

start_text == <<"!", "s", "t", "a", "r", "t">>
halp_text == <<"!", "h", "a", "l", "p">>
guess_text == <<"!", "g", "u", "e", "s", "s", " ">>
thesaurus_text == <<"!", "t", "h", "e", "s", "a", "u", "r", "u", "s", " ">>

\* The texts of the PRIVMSGs the handler is sent: the bot's name, single
\* words, the commands well and badly formed, and chatter.
IrcMsgs ==
    GuessTexts \cup
    { self_name, start_text, halp_text,
      guess_text \o cat,
      guess_text \o cat \o <<" ">> \o dog,
      thesaurus_text \o cat,
      thesaurus_text \o dog \o <<" ", "1">>,
      thesaurus_text \o cat \o <<" ", "2">>,
      thesaurus_text \o cat \o <<" ", "x">>,
      thesaurus_text \o <<"x">>,
      <<"h", "i", " ">> \o self_name }

\* message.source_nickname(): a nick, or "" for a message with no prefix.
NoNick == ""
IrcNicks == Nicks \cup {NoNick}

\* str::starts_with
starts_with(s, p) == Len(s) >= Len(p) /\ SubSeq(s, 1, Len(p)) = p

RECURSIVE split(_, _)
\* str::split(c): the pieces between the occurrences of c, empty ones kept.
split(s, c) ==
    IF \E i \in 1..Len(s) : s[i] = c
    THEN LET i == CHOOSE i \in 1..Len(s) :
                     s[i] = c /\ \A j \in 1..(i - 1) : s[j] # c
         IN  <<SubSeq(s, 1, i - 1)>> \o split(SubSeq(s, i + 1, Len(s)), c)
    ELSE <<s>>

\* msg.split_whitespace().count(): the number of runs of non-whitespace.
split_whitespace_count(s) ==
    Cardinality({i \in 1..Len(s) :
                    /\ ~IsWhitespace(s[i])
                    /\ (i = 1 \/ IsWhitespace(s[i - 1]))})

\* The value of a decimal digit, -1 for any other character.
digit_of(c) ==
    IF \E d \in 1..Len(Digits) : Digits[d] = c
    THEN (CHOOSE d \in 1..Len(Digits) : Digits[d] = c) - 1
    ELSE -1

RECURSIVE digits_value(_)
\* The number a sequence of decimal digits writes.
digits_value(s) ==
    IF s = << >> THEN 0
    ELSE digits_value(SubSeq(s, 1, Len(s) - 1)) * 10 + digit_of(s[Len(s)])

\* str::parse::<usize>: an optional "+" and one digit or more; the texts
\* parsed here are far below usize::MAX.
parse_usize(s) ==
    LET d == IF s # << >> /\ s[1] = "+" THEN Tail(s) ELSE s
    IN  IF d # << >> /\ \A i \in 1..Len(d) : digit_of(d[i]) >= 0
        THEN [ok |-> TRUE, val |-> digits_value(d)]
        ELSE [ok |-> FALSE, val |-> 0]

\* Option<usize>::None for the count of GameCommand::Thesaurus.
NoCount == -1

\* What GameCommand::parse returns: Ok(GameCommand::..) or
\* Err(GameCommandParseError::..), by kind.
Command(kind, w, count) ==
    [kind |-> kind, word |-> w, count |-> count, expected |-> ""]
SyntaxError(expected) ==
    [kind |-> "SyntaxError", word |-> << >>, count |-> NoCount,
     expected |-> expected]
Unrecognized == Command("Unrecognized", << >>, NoCount)

\* GameCommand::parse, the "!thesaurus " arm, on the pieces of msg.split(' ').
parse_thesaurus(parts, SYNTAX_ERROR) ==
    IF Len(parts) < 2 \/ Len(parts) > 3 THEN SYNTAX_ERROR
    ELSE IF Len(parts) = 3
    THEN IF parse_usize(parts[3]).ok
         THEN Command("Thesaurus", parts[2], parse_usize(parts[3]).val)
         ELSE SYNTAX_ERROR
    ELSE Command("Thesaurus", parts[2], NoCount)

\* GameCommand::parse, the "!guess " arm, on the pieces of msg.split(' ').
parse_guess(parts, SYNTAX_ERROR) ==
    IF Len(parts) # 2 THEN SYNTAX_ERROR
    ELSE Command("Guess", parts[2], NoCount)

\* GameCommand::parse
parse(msg) ==
    IF starts_with(msg, thesaurus_text)
    THEN parse_thesaurus(split(msg, " "),
                         SyntaxError("!thesaurus <word> <count>"))
    ELSE IF starts_with(msg, guess_text)
    THEN parse_guess(split(msg, " "), SyntaxError("!thesaurus <word>"))
    ELSE IF msg = halp_text THEN Command("Halp", << >>, NoCount)
    ELSE IF msg = start_text THEN Command("Start", << >>, NoCount)
    ELSE Unrecognized

\* A message given to sender.say: the format string, and the text, the number
\* or the error put in its place holder.
Reply(fmt, text, num, err) == [fmt |-> fmt, text |-> text, num |-> num, err |-> err]
Say(fmt) == Reply(fmt, << >>, 0, "")

\* The reply "something went wrong", with the error between back quotes, for
\* a failed call, else the reply ok.
reply_of(res, ok) ==
    IF res.kind = "Err"
    THEN Reply("something went wrong ({})", << >>, 0, res.err)
    ELSE ok

\* What one message did: the engine and database after it, last_wakeup,
\* the guess (if some), what was said, the Game call made and whether the
\* task panicked.  Here: nothing.
Quiet(S, lw) ==
    [S |-> S, last_wakeup |-> lw, guess_some |-> FALSE, guess |-> << >>,
     said |-> << >>, call |-> NoCall, panic |-> FALSE]

\* The arm of `match GameCommand::parse(msg)` for the parsed command c.
command(quiet, c, pos, t) ==
    CASE c.kind = "Thesaurus" ->
           IF thesaurus(words, c.word,
                        IF c.count = NoCount THEN 1 ELSE c.count).panic
           THEN [quiet EXCEPT !.panic = TRUE]
           ELSE [quiet EXCEPT !.said =
                    <<Reply("{}",
                            thesaurus(words, c.word,
                                IF c.count = NoCount THEN 1 ELSE c.count).text,
                            0, "")>>]
      [] c.kind = "Guess" ->
           [quiet EXCEPT !.guess_some = TRUE, !.guess = c.word]
      [] c.kind = "Start" ->
           [quiet EXCEPT
               !.S = start_game(quiet.S, pos, t, 0).S,
               !.call = [op |-> "start_game", nick |-> "", guess |-> Empty,
                         sid |-> quiet.S.session_id,
                         res |-> start_game(quiet.S, pos, t, 0).res],
               !.said = <<reply_of(start_game(quiet.S, pos, t, 0).res,
                                   Say("game started"))>>]
      [] c.kind = "Halp" ->
           [quiet EXCEPT !.said = <<Say("coming soon")>>]
      [] c.kind = "SyntaxError" ->
           [quiet EXCEPT !.said =
               <<Reply("syntax error: {}", << >>, 0, c.expected)>>]
      [] OTHER -> quiet

\* dispatch in which a single word taken as a guess leaves last_wakeup as it
\* was.
dispatch_no_reset(quiet, now, msg, pos, t) ==
    IF msg = self_name
    THEN [quiet EXCEPT !.last_wakeup = now, !.said = <<Say("oui?")>>]
    ELSE IF split_whitespace_count(msg) = 1
    THEN IF now - quiet.last_wakeup < AWAKE_SECS
         THEN [quiet EXCEPT !.guess_some = TRUE, !.guess = msg]
         ELSE quiet
    ELSE command(quiet, parse(msg), pos, t)

\* The first half of the PRIVMSG arm of irc_handler, on the trimmed text:
\* the wakeup, the single word, or the command.
dispatch(quiet, now, msg, pos, t) ==
    IF msg = self_name
    THEN [quiet EXCEPT !.last_wakeup = now, !.said = <<Say("oui?")>>]
    ELSE IF split_whitespace_count(msg) = 1
    THEN IF now - quiet.last_wakeup < AWAKE_SECS
         THEN [quiet EXCEPT !.last_wakeup = now, !.guess_some = TRUE,
                            !.guess = msg]
         ELSE quiet
    ELSE command(quiet, parse(msg), pos, t)

\* The reply to a guess, by the outcome of Game::process_guess.
guess_reply(res) ==
    CASE res.kind = "Win" -> Say("you guessed the word")
      [] res.kind = "Miss" -> Reply("miss ({})", << >>, res.distance, "")
      [] res.kind = "UnknownWord" -> Say("unknown word")
      [] OTHER -> reply_of(res, Say(""))

\* The call of Game::process_guess for the guess of d, r being what the
\* call gives.
submit(d, nick, r) ==
    [d EXCEPT !.S = r.S,
              !.call = [op |-> "process_guess", nick |-> nick,
                        guess |-> cleanup(d.guess), sid |-> d.S.session_id,
                        res |-> r.res],
              !.said = <<guess_reply(r.res)>>]

\* The second half of the PRIVMSG arm: the guess, if some, is handed to
\* Game::process_guess when the message has a source nickname.
handle_guess(d, nick, t) ==
    IF d.guess_some /\ nick # NoNick
    THEN submit(d, nick, process_guess(d.S, nick, d.guess, t, 0))
    ELSE d

\* The PRIVMSG arm of irc_handler for one message.
privmsg(S, lw, now, nick, text, pos, t) ==
    handle_guess(dispatch(Quiet(S, lw), now, trim(text), pos, t), nick, t)

\* The seconds that pass between two messages: one less than the time the
\* bot stays awake, or just that time.
Elapsed == {AWAKE_SECS - 1, AWAKE_SECS}

\* The positions the random generator may give for a message: start_game
\* alone draws one.
Draws(text) ==
    IF parse(trim(text)).kind = "Start" THEN 1..Len(words) ELSE {1}

\* irc_handler takes the next message of the stream, a PRIVMSG, and handles
\* it; a panic ends the task.  The time of day end_game reads is the clock's.
\* ret is the Game call made for this message, NoCall if there was none.
Privmsg ==
    \E nick \in IrcNicks, text \in IrcMsgs, e \in Elapsed :
        /\ irc_task = "running"
        /\ clock + e <= MaxClock
        /\ clock' = clock + e
        /\ \E pos \in Draws(text) :
             \E h \in {privmsg(Cur, last_wakeup, clock + e, nick, text, pos,
                               clock + e + 1)} :
                 /\ Len(h.S.sessions) <= MaxSessions
                 /\ Len(h.S.guesses) <= MaxGuesses
                 /\ Install(h.S)
                 /\ last_wakeup' = h.last_wakeup
                 /\ heard' = [msg |-> text, nick |-> nick, guess |-> h.guess,
                              guessed |-> h.call.op = "process_guess",
                              said |-> h.said]
                 /\ ret' = h.call
                 /\ irc_task' = IF h.panic THEN "panicked" ELSE "running"
        /\ UNCHANGED <<words, rejects_tail, handle, process>>

\* main: try_join!(irc_task) gives the JoinError of a panicked task and
\* res.unwrap() panics in main.
Join ==
    /\ irc_task = "panicked"
    /\ process = "running"
    /\ process' = "crashed"
    /\ UNCHANGED <<words, rejects_tail, engine, db, ret, handle, clock,
                   last_wakeup, heard, irc_task>>

NextIrc == Privmsg \/ Join

\* The bot: irc_handler on the engine, under main.
SpecIrc == InitConc /\ [][NextIrc]_vars

\* ---------------------------------------------------------------- claims

\* Session i has not been ended: its row has no end_date.
Active(i) == sessions[i].end_date = NULL

ActiveSessions == {i \in 1..Len(sessions) : Active(i)}

\* C1: after any sequence of start_game, process_guess and restart, at most
\* one persisted session has not been ended.
C1_AtMostOneActive == Cardinality(ActiveSessions) <= 1

\* C1: start_game has ended session 1 and opened session 2.
C1_Witness ==
    /\ ret.op = "start_game"
    /\ ret.res = Unit
    /\ ret.sid = 1
    /\ Len(sessions) = 2
    /\ ActiveSessions = {2}

\* C2: a process_guess call made while a session is active, with a guess that
\* cleans up to the word persisted for that session, returns Win.
C2_EqualGuessWins ==
    (/\ ret.op = "process_guess"
     /\ ret.sid # None
     /\ ret.guess = sessions[ret.sid].word)
    => ret.res = Win

\* C3: after process_guess returns Win, the session it was played in is ended
\* with the guessing player as its winner, the engine holds no session, and
\* any next process_guess fails with "there's no game in progress".
C3_WinEndsSession ==
    (ret.op = "process_guess" /\ ret.res = Win)
    => /\ session_id = None
       /\ sessions[ret.sid].end_date # NULL
       /\ sessions[ret.sid].winner_id = player_of(players, ret.nick)
       /\ \A nick \in Nicks, guess \in GuessTexts, t \in Times :
             process_guess(Cur, nick, guess, t, 0).res = NoGame

\* C4: of the process_guess calls made concurrently through the Game handle,
\* no two return Win for the same session.
C4_AtMostOneWin ==
    \A c1 \in Callers, c2 \in Callers :
        (/\ c1 # c2
         /\ pc[c1] = "done" /\ out[c1].res = Win
         /\ pc[c2] = "done" /\ out[c2].res = Win)
        => out[c1].sid # out[c2].sid

\* C5: at most one call of Game::start_game / Game::process_guess is inside
\* the section between taking the lock and dropping it, where GameState is
\* read and written, and the mutex names that call.
C5_MutualExclusion ==
    /\ Cardinality({c \in Callers : pc[c] = "locked"}) <= 1
    /\ \A c \in Callers : pc[c] = "locked" <=> mutex = c

\* C5: one call holds the lock while another, already spawned, waits for it.
C5_Witness ==
    \E c1 \in Callers, c2 \in Callers :
        /\ c1 # c2
        /\ pc[c1] = "locked" /\ mutex = c1
        /\ pc[c2] = "spawned"

\* C6: whenever the engine holds session id, its word is the word persisted in
\* session row id.
C6_WordIsSessionWord ==
    session_id # None => word = sessions[session_id].word

C8_RestartRoundTrip ==
    [][(ret.op = "start_game" /\ ret.res = Unit /\ Restart)
       => (session_id' = session_id /\ word' = word)]_vars

\* C9: no ended session is loaded as the active one: a session whose row has
\* an end_date is not the one current_session names, and after a winning
\* guess, no session having been started since, load gives no session.
C9_EndedNotReloaded ==
    /\ \A i \in 1..Len(sessions) :
          sessions[i].end_date # NULL => load(Cur).session_id # i
    /\ (ret.op = "process_guess" /\ ret.res = Win)
          => load(Cur).session_id = None

\* C10: process_guess returns Win only for a guess that cleans up to the
\* word persisted for the session it is played in.
C10_WinOnlyOnSecret ==
    (ret.op = "process_guess" /\ ret.res = Win)
    => ret.guess = sessions[ret.sid].word

\* The last call was process_guess with a guess that cleans up to no
\* vocabulary term.
UnknownGuess(r) == r.op = "process_guess" /\ position(words, r.guess) = 0

\* C11 (as stated): process_guess with a guess that cleans up to no vocabulary
\* term always returns UnknownWord.
C11_AlwaysUnknownWord == UnknownGuess(ret) => ret.res = UnknownWord

\* C11: process_guess with a guess that cleans up to no vocabulary term leaves
\* the guess rows as they were, and returns UnknownWord when it is made while
\* a session is active.
C11_UnknownWordNoRow ==
    [][UnknownGuess(ret')
       => /\ guesses' = guesses
          /\ (ret'.sid # None => ret'.res = UnknownWord)]_vars

\* C11: an unknown word was answered UnknownWord in a session that already has
\* a guess row.
C11_Witness ==
    /\ UnknownGuess(ret)
    /\ ret.sid # None
    /\ ret.res = UnknownWord
    /\ \E i \in 1..Len(guesses) : guesses[i].session_id = ret.sid

\* C12: process_guess called while the engine holds no session fails with
\* "there's no game in progress" and changes neither the tables nor the
\* engine's fields.
C12_NoSessionNoWrite ==
    [][(ret'.op = "process_guess" /\ ret'.sid = None)
       => (ret'.res = NoGame /\ UNCHANGED <<engine, db>>)]_vars

\* C12: a guess by a nick that has no player row was refused for want of a
\* session, and the nick still has no player row.
C12_Witness ==
    /\ ret.op = "process_guess"
    /\ ret.sid = None
    /\ ret.res = NoGame
    /\ player_of(players, ret.nick) = 0

\* The guess rows before the step are the first rows after it, unchanged.
GuessesKept ==
    /\ Len(guesses') >= Len(guesses)
    /\ \A i \in 1..Len(guesses) : guesses'[i] = guesses[i]

\* C13: a process_guess call made while a session is active, with a guess that
\* cleans up to a vocabulary term, appends exactly one guess row, carrying the
\* session id, the player's id and the cleaned guess; no step changes or
\* removes a guess row.
C13_OneRowPerKnownGuess ==
    [][/\ GuessesKept
       /\ (/\ ret'.op = "process_guess"
           /\ ret'.sid # None
           /\ ~UnknownGuess(ret'))
          => /\ Len(guesses') = Len(guesses) + 1
             /\ guesses'[Len(guesses')].session_id = ret'.sid
             /\ guesses'[Len(guesses')].player_id = player_of(players', ret'.nick)
             /\ guesses'[Len(guesses')].guess = ret'.guess]_vars

\* C14: process_guess never fails with "could not find target word in
\* vocabulary: this is a bug".
C14_TargetAlwaysFound == ret.res # TargetMissing

\* C15: a start_game or process_guess call that returns a storage error leaves
\* the engine's session id and word as they were before the call.
C15_FailureKeepsEngine ==
    [][ret'.res = StorageError => UNCHANGED <<session_id, word>>]_vars

\* C16: process_guess returns Win only when ending the session succeeded, that
\* is, with the session it was played in ended.
C16_NoWinWhenEndFailed ==
    (ret.op = "process_guess" /\ ret.res = Win)
    => sessions[ret.sid].end_date # NULL

\* Session i has been won: a guess row of it scores 1.0, which is when
\* process_guess returns Win.
Won(i) == \E j \in 1..Len(guesses) :
              guesses[j].session_id = i /\ guesses[j].cosine = ONE

\* C17: once a session is ended, by a win or by a later start_game, no step
\* changes its row and no guess row is added for it.
C17_EndedIsTerminal ==
    [][\A i \in 1..Len(sessions) :
          (~Active(i) \/ Won(i))
          => /\ sessions'[i] = sessions[i]
             /\ \A j \in (Len(guesses) + 1)..Len(guesses') :
                   guesses'[j].session_id # i]_vars

\* C18: the neighbours thesaurus gives for a vocabulary term never hold that
\* term, and they are in non-increasing order of dot product with it.
C18_AnchorExcludedSorted ==
    (ret.op = "thesaurus" /\ ret.results.kind = "Some")
    => LET l == ret.results.list
       IN  /\ \A k \in 1..Len(l) : l[k].term # ret.word
           /\ \A k \in 1..(Len(l) - 1) : l[k].dist >= l[k + 1].dist

\* C19: thesaurus called for a vocabulary term with a count greater than the
\* number of other entries does not panic and gives all the other entries.
C19_CountBeyondVocabulary ==
    (/\ ret.op = "thesaurus"
     /\ position(words, ret.word) # 0
     /\ ret.count > Len(words) - 1)
    => /\ ~ret.res.panic
       /\ ret.results.kind = "Some"
       /\ Len(ret.results.list) = Len(words) - 1

\* C20: whatever message it has handled, the task of irc_handler is running,
\* ready for the next message, and the process has not crashed.
C20_HandlerSurvives == irc_task = "running" /\ process = "running"

\* C21: a message whose trimmed text is "!start" makes the handler call
\* Game::start_game and say "game started" or the failure text, and a message
\* whose trimmed text is "!halp" is answered "coming soon".
C21_StartAndHalpAnswered ==
    /\ trim(heard.msg) = start_text
          => /\ ret.op = "start_game"
             /\ Len(heard.said) = 1
             /\ heard.said[1] = reply_of(ret.res, Say("game started"))
    /\ trim(heard.msg) = halp_text
          => heard.said = <<Say("coming soon")>>

\* The message heard is a single word that is not the bot's name.
SingleWord(h) ==
    split_whitespace_count(trim(h.msg)) = 1 /\ trim(h.msg) # self_name

\* C22 (as stated): a single word that is not the bot's name is submitted as a
\* guess if and only if fewer than AWAKE_SECS seconds have passed since the
\* last wakeup.
C22_GuessIffAwake ==
    [][(clock' # clock /\ SingleWord(heard'))
       => (heard'.guessed <=> clock' - last_wakeup < AWAKE_SECS)]_vars

\* C22: a message equal to the bot's name sets the wakeup time.  A single
\* word that is not the bot's name is taken as a guess if and only if fewer
\* than AWAKE_SECS seconds have passed since the last wakeup, and then sets the
\* wakeup time; it is submitted to process_guess if and only if, besides, the
\* message has a source nickname.  Outside the window it changes nothing and
\* gets no reply.
C22_AwakeWindow ==
    [][clock' # clock
       => LET awake == clock' - last_wakeup < AWAKE_SECS
          IN  /\ trim(heard'.msg) = self_name => last_wakeup' = clock'
              /\ SingleWord(heard')
                    => /\ heard'.guessed <=> (awake /\ heard'.nick # NoNick)
                       /\ heard'.guessed
                             => /\ ret'.nick = heard'.nick
                                /\ ret'.guess = cleanup(heard'.msg)
                       /\ last_wakeup' = IF awake THEN clock' ELSE last_wakeup
                       /\ ~awake => /\ heard'.said = << >>
                                    /\ ret' = NoCall
                                    /\ UNCHANGED <<engine, db>>]_vars

\* C22: a single word was submitted as a guess 28 seconds after the handler
\* started, the wakeup time having been set 14 seconds before.
C22_Witness ==
    /\ SingleWord(heard)
    /\ heard.guessed
    /\ clock = 2 * (AWAKE_SECS - 1)
    /\ last_wakeup = clock

\* No two rows of `rows` have the same nick.
DistinctNicks(rows) ==
    \A i \in 1..Len(rows), j \in 1..Len(rows) :
        rows[i].nick = rows[j].nick => i = j

\* C23: a process_guess call that returns UnknownWord, or fails for want of
\* the target word's vector, made with a nick that has no player row, adds
\* exactly one player row, of that nick with score 0; and no step leaves two
\* player rows with the same nick.
C23_PlayerResolvedFirst ==
    [][/\ DistinctNicks(players')
       /\ (/\ ret'.op = "process_guess"
           /\ ret'.res \in {UnknownWord, TargetMissing}
           /\ player_of(players, ret'.nick) = 0)
          => players' = Append(players, [nick |-> ret'.nick, score |-> 0])]_vars

\* C23: an unknown word was guessed by the second player, who has a player
\* row and no guess row.
C23_Witness ==
    /\ ret.op = "process_guess"
    /\ ret.res = UnknownWord
    /\ Len(players) = 2
    /\ player_of(players, ret.nick) = 2
    /\ DistinctNicks(players)
    /\ \A i \in 1..Len(guesses) : guesses[i].player_id # 2

\* C24: under fair scheduling, no call handed to the blocking pool through
\* the Game handle stays for ever short of its end, and the lock does not
\* stay held for ever; a call at its end has what the operation returned, an
\* error included, and does not hold the lock.
C24_CallsComplete ==
    /\ \A c \in Callers : []<>(pc[c] \notin {"spawned", "locked"})
    /\ []<>(mutex = 0)
    /\ [](\A c \in Callers :
             pc[c] = "done" => (out[c].op = req[c].op /\ mutex # c))

\* C24: a call has returned an error and holds no lock, while another call,
\* spawned meanwhile, is still to run.
C24_Witness ==
    \E c1 \in Callers, c2 \in Callers :
        /\ pc[c1] = "done"
        /\ out[c1].res.kind = "Err"
        /\ mutex = 0
        /\ pc[c2] = "spawned"

=============================================================================
